---------------------------- MODULE Spec2Model ----------------------------
(***************************************************************************)
(* Model of build_changelog.py: the SlimPackage class and the program's    *)
(* main section.  A Python str is modelled as a sequence of one-character  *)
(* strings, so that replace / split / slicing act on characters as the     *)
(* code's calls do.  An optional value (None or a value) is a record       *)
(* [some, val].                                                            *)
(*                                                                         *)
(* The repository is what GitPython reports of it: iter_commits yields the *)
(* commits one at a time, each with a hexsha, an author, parents or none,  *)
(* a message and possibly a tag; a walk ends with a commit that has no     *)
(* parents, and a starting commit without parents is the whole walk.  The  *)
(* program runs in the repository's working tree (--git-repository is the  *)
(* current directory), so debian/changelog read and debian/changelog       *)
(* written are one file.  The revision given as --commit resolves.         *)
(***************************************************************************)
EXTENDS Integers, Sequences, FiniteSets

\* ------------------------------------------------------------------ bounds

\* The longest commit sequence the history walk yields.
MaxCommits == 3

\* The longest commit sequence explored under the command lines and working
\* trees outside FullHistoryRuns.
BasicCommits == 2

\* ------------------------------------------------------- optional values

None == [some |-> FALSE, val |-> <<>>]

Some(x) == [some |-> TRUE, val |-> x]

\* ------------------------------------------------------ string primitives

\* s[i:] of Python, i counted from 0.
DropFirst(s, n) == IF n >= Len(s) THEN <<>> ELSE SubSeq(s, n + 1, Len(s))

\* s[0:n] of Python.
TakeFirst(s, n) == IF n >= Len(s) THEN s ELSE SubSeq(s, 1, n)

\* s has p at position i (counted from 1).
MatchAt(s, i, p) ==
    /\ i + Len(p) - 1 <= Len(s)
    /\ \A j \in 1..Len(p) : s[i + j - 1] = p[j]

\* str.startswith
StartsWith(s, p) == MatchAt(s, 1, p)

\* str.replace(old, new) for a non-empty old: every non-overlapping
\* occurrence, scanning from the left; i is the position reached.
RECURSIVE ReplaceFrom(_, _, _, _)
ReplaceFrom(s, i, old, new) ==
    LET hits == {k \in i..Len(s) : MatchAt(s, k, old)}
    IN  IF hits = {} THEN SubSeq(s, i, Len(s))
        ELSE LET k == CHOOSE h \in hits : \A g \in hits : h <= g
             IN  SubSeq(s, i, k - 1) \o new
                     \o ReplaceFrom(s, k + Len(old), old, new)

\* (One character replaced by one character is the same, position by
\* position.)
Replace(s, old, new) ==
    IF Len(old) = 1 /\ Len(new) = 1
    THEN [i \in 1..Len(s) |-> IF s[i] = old[1] THEN new[1] ELSE s[i]]
    ELSE ReplaceFrom(s, 1, old, new)

\* The positions of the character sep in s.
Positions(s, sep) == {i \in 1..Len(s) : s[i] = sep}

\* str.split(sep) for a one-character sep: always at least one piece, empty
\* pieces kept; start is where the piece being read began.
RECURSIVE SplitFrom(_, _, _)
SplitFrom(s, sep, start) ==
    LET later == {i \in Positions(s, sep) : i >= start}
    IN  IF later = {} THEN <<SubSeq(s, start, Len(s))>>
        ELSE LET cut == CHOOSE i \in later : \A j \in later : i <= j
             IN  <<SubSeq(s, start, cut - 1)>> \o SplitFrom(s, sep, cut + 1)

Split(s, sep) == SplitFrom(s, sep, 1)

\* str.split(sep, 1): at most one split.
SplitOnce(s, sep) ==
    LET at == Positions(s, sep)
    IN  IF at = {} THEN <<s>>
        ELSE LET cut == CHOOSE i \in at : \A j \in at : i <= j
             IN  <<SubSeq(s, 1, cut - 1), SubSeq(s, cut + 1, Len(s))>>

\* sep.join(parts)
RECURSIVE Join(_, _)
Join(sep, parts) ==
    IF parts = <<>> THEN <<>>
    ELSE IF Len(parts) = 1 THEN parts[1]
         ELSE parts[1] \o sep \o Join(sep, Tail(parts))

Whitespace == {" ", "\n", "\t", "\r"}

\* str.strip(): from the first to the last character that is not whitespace.
Strip(s) ==
    LET solid == {i \in 1..Len(s) : s[i] \notin Whitespace}
    IN  IF solid = {} THEN <<>>
        ELSE SubSeq(s, CHOOSE i \in solid : \A j \in solid : i <= j,
                       CHOOSE i \in solid : \A j \in solid : j <= i)

\* The number of occurrences of character c in s.
Count(s, c) == Cardinality(Positions(s, c))

LowerLetters ==
    <<"a", "b", "c", "d", "e", "f", "g", "h", "i", "j", "k", "l", "m",
      "n", "o", "p", "q", "r", "s", "t", "u", "v", "w", "x", "y", "z">>

UpperLetters ==
    <<"A", "B", "C", "D", "E", "F", "G", "H", "I", "J", "K", "L", "M",
      "N", "O", "P", "Q", "R", "S", "T", "U", "V", "W", "X", "Y", "Z">>

Digits == <<"0", "1", "2", "3", "4", "5", "6", "7", "8", "9">>

\* str.lower() on ASCII.
LowerChar(c) ==
    IF \E i \in 1..Len(UpperLetters) : UpperLetters[i] = c
    THEN LowerLetters[CHOOSE i \in 1..Len(UpperLetters) : UpperLetters[i] = c]
    ELSE c

Lower(s) == [i \in 1..Len(s) |-> LowerChar(s[i])]

\* The characters not_allowed_regex, "[^a-z0-9_]+", does not match.
SlugChars ==
    {LowerLetters[i] : i \in 1..Len(LowerLetters)}
        \cup {Digits[i] : i \in 1..Len(Digits)} \cup {"_"}

\* not_allowed_regex.sub(".", s): each maximal run of other characters
\* becomes one ".": a character of a run is kept, as ".", only when it
\* begins the run.
RegexSubDot(s) ==
    LET kept == SelectSeq([i \in 1..Len(s) |-> i],
                          LAMBDA i : \/ s[i] \in SlugChars
                                     \/ i = 1
                                     \/ s[i - 1] \in SlugChars)
    IN  [n \in 1..Len(kept) |->
            IF s[kept[n]] \in SlugChars THEN s[kept[n]] ELSE "."]

slugify(string) == RegexSubDot(Lower(string))

sanitize_tag_version(version) ==
    Replace(Replace(version, <<"_">>, <<"~">>), <<"%">>, <<":">>)


\* -------------------------------------------------------------- timestamps

\* The decimal digits of n, zero-padded to width w (strftime's %Y, %m, ...).
RECURSIVE Pad(_, _)
Pad(n, w) ==
    IF w = 0 THEN <<>> ELSE Pad(n \div 10, w - 1) \o <<Digits[(n % 10) + 1]>>

\* The proleptic Gregorian date of the day `days` after 1970-01-01, as
\* <<year, month, day>> (datetime.datetime.fromtimestamp).
CivilFromDays(days) ==
    LET z   == days + 719468
        era == z \div 146097
        doe == z - era * 146097
        yoe == (doe - doe \div 1460 + doe \div 36524 - doe \div 146096) \div 365
        doy == doe - (365 * yoe + yoe \div 4 - yoe \div 100)
        mp  == (5 * doy + 2) \div 153
        d   == doy - (153 * mp + 2) \div 5 + 1
        m   == IF mp < 10 THEN mp + 3 ELSE mp - 9
        y   == yoe + era * 400 + (IF m <= 2 THEN 1 ELSE 0)
    IN  <<y, m, d>>

\* datetime.datetime.fromtimestamp(ts).strftime("%Y%m%d%H%M%S") on a machine
\* whose local time is utcOffset seconds ahead of UTC.
Strftime(ts, utcOffset) ==
    LET local == ts + utcOffset
        ymd   == CivilFromDays(local \div 86400)
        secs  == local % 86400
    IN  Pad(ymd[1], 4) \o Pad(ymd[2], 2) \o Pad(ymd[3], 2)
            \o Pad(secs \div 3600, 2) \o Pad((secs % 3600) \div 60, 2)
            \o Pad(secs % 60, 2)

\* ---------------------------------------------------- program constants

\* argparse default of --tag-prefix.
DefaultTagPrefix == <<"h", "y", "b", "r", "i", "s", "-", "m", "o", "b", "i", "a", "n", "/">>

\* argparse default of --branch-prefix.
DefaultBranchPrefix == <<"f", "e", "a", "t", "u", "r", "e", "/">>

\* argparse default of --comment.
DefaultComment == <<"r", "e", "l", "e", "a", "s", "e">>

\* The last starting-version strategy.
DefaultVersion == <<"0", ".", "0", ".", "0">>

SourcePrefix == <<"S", "o", "u", "r", "c", "e", ":", " ">>

QuiltFormat == <<"3", ".", "0", " ", "(", "q", "u", "i", "l", "t", ")">>

\* The messages of the exceptions the program raises, and the names of the
\* exceptions the Python runtime raises for it.
ErrRepository == "Unable to load git repository"

ErrNoControl == "Unable to find debian/control"

ErrNoSourceName == "Unable to determine the source package name!"

ErrNoSourceFormat == "Unable to find debian/source/format"

ErrNoRelease == "At least one between tag and branch must be specified"

\* repository.active_branch on a detached HEAD.
ErrDetachedHead == "TypeError: HEAD is a detached symbolic reference"

\* open("debian/changelog", "w") without a debian directory.
ErrOpen == "FileNotFoundError: debian/changelog"

\* release, version = nearest_version.split("/") with other than two pieces.
ErrUnpack == "ValueError: wrong number of values to unpack"

\* len(entry.contents) with entry None.
ErrNoEntry == "AttributeError: 'NoneType' object has no attribute 'contents'"

\* A property's outcome: a value, or the exception it raised.
Ok(v) == [ok |-> TRUE, val |-> v, err |-> ""]

Raise(e) == [ok |-> FALSE, val |-> <<>>, err |-> e]

\* ------------------------------------------------------------ the history

HexDigits == Digits \o <<"a", "b", "c", "d", "e", "f">>

\* The 40-character hexshas of the commits a walk yields, by position.
Hexshas ==
    [k \in 1..9 |-> [i \in 1..40 |-> HexDigits[((i * (k + 6)) % 16) + 1]]]

Hexsha(k) == Hexshas[k]

\* The messages of the commits a walk yields, by position: a subject line,
\* a blank line, a body.
Messages ==
    [k \in 1..9 |->
        <<"f", "i", "x", " ", Digits[k + 1], "\n", "\n", "b", "o", "d", "y">>]

Message(k) == Messages[k]

\* commit.message.split("\n")[0]
FirstLine(message) == Split(message, "\n")[1]

Authors == {"alice", "bob"}

\* commit.author.email
EmailOf(author) == IF author = "alice" THEN "alice@example.org" ELSE "bob@example.org"

\* Tag names put on commits: release/version, version only, a pair with an
\* extra path segment, and a tag of another project (other prefix).
TagGood == DefaultTagPrefix \o <<"b", "u", "l", "l", "s", "e", "y", "e", "/", "1", ".", "0", "_", "2">>

TagNoSlash == DefaultTagPrefix \o <<"v", "1", "%", "2">>

TagTwoSlashes == DefaultTagPrefix \o <<"a", "/", "b", "/", "1", ".", "0">>

TagForeign == <<"u", "p", "s", "t", "r", "e", "a", "m", "/", "9">>

CommitTags == {None, Some(TagGood), Some(TagNoSlash), Some(TagTwoSlashes), Some(TagForeign)}

\* The k-th commit of a walk: iter_commits yields it with these attributes.
Commit(k, author, parents, tag) ==
    [id |-> k, hexsha |-> Hexsha(k), author |-> author, parents |-> parents,
     tag |-> tag, message |-> Message(k)]

\* email.utils.format_datetime(from_timestamp(committed_date, tz_offset)) of
\* a commit: the date of that commit, kept by the commit it belongs to.
FormatDate(commit) == <<"date of", commit.id>>

\* ------------------------------------------------------------ SlimPackage

\* Python truthiness of an optional string: None and "" are falsy.
Truthy(opt) == opt.some /\ opt.val # <<>>

\* f.readline(): the text up to and including the first newline.
ReadLine(text) ==
    LET ends == Positions(text, "\n")
    IN  IF ends = {} THEN text
        ELSE SubSeq(text, 1, CHOOSE i \in ends : \A j \in ends : i <= j)

\* s[1:-1]
Inner(s) == IF Len(s) <= 2 THEN <<>> ELSE SubSeq(s, 2, Len(s) - 1)

\* SlimPackage.get_version_from_changelog: debian is the optional debian
\* directory of the working tree.
get_version_from_changelog(debian) ==
    IF debian.some /\ debian.val.changelog.some
    THEN LET pieces == Split(ReadLine(debian.val.changelog.val), " ")
         IN  IF Len(pieces) >= 2 THEN Some(Inner(pieces[2])) ELSE None
    ELSE None

\* none_on_exception(*args, **kwargs): its body calls func, a name bound
\* nowhere, inside try/except: the NameError is caught and None returned,
\* whatever the arguments are.
none_on_exception(arguments) == None

\* The lambda handed to none_on_exception by the second strategy, applied to
\* the output of git describe --tags --always --abbrev=0 --match=<prefix>*:
\* .replace(prefix, "").split("/")[1], an IndexError without a "/".
DescribeVersion(described, tag_prefix) ==
    LET pieces == Split(Replace(described, tag_prefix, <<>>), "/")
    IN  IF Len(pieces) >= 2 THEN Ok(pieces[2]) ELSE Raise("IndexError")

\* The first strategy: the last path segment of the supplied tag.
TagVersion(tag, tag_prefix) ==
    IF tag.some
    THEN LET pieces == Split(Replace(tag.val, tag_prefix, <<>>), "/")
         IN  Some(pieces[Len(pieces)])
    ELSE None

\* The results the strategies of SlimPackage.version give, in list order.
StartingVersionStrategies(tag, debian) ==
    << TagVersion(tag, DefaultTagPrefix),
       none_on_exception(<<"describe", DefaultTagPrefix>>),
       get_version_from_changelog(debian),
       Some(DefaultVersion) >>

\* The loop over the strategies: the first result that is not None.
RECURSIVE FirstNotNone(_)
FirstNotNone(results) ==
    IF results = <<>> THEN None
    ELSE IF Head(results).some THEN Head(results)
         ELSE FirstNotNone(Tail(results))

\* Variant: no "." between the timestamp and the hash.
FormatVersion_NoDotBeforeHash(starting_version, timestamp, commit_hash, comment) ==
    starting_version \o <<"+", "g", "i", "t">> \o
        timestamp \o Join(<<".">>, <<TakeFirst(commit_hash, 7), comment>>)

\* The version string built from the starting version.
FormatVersion(starting_version, timestamp, commit_hash, comment) ==
    starting_version \o <<"+", "g", "i", "t">> \o
        Join(<<".">>, <<timestamp, TakeFirst(commit_hash, 7), comment>>)

\* SlimPackage.name on a package whose cached name is _name.
name(_name, debian) ==
    IF _name.some THEN Ok(_name.val)
    ELSE IF debian.some /\ debian.val.control.some
    THEN LET lines == debian.val.control.val
             hits  == {i \in 1..Len(lines) : StartsWith(lines[i], SourcePrefix)}
         IN  IF hits = {} THEN Raise(ErrNoSourceName)
             ELSE LET first == CHOOSE i \in hits : \A j \in hits : i <= j
                      pieces == SplitOnce(Strip(lines[first]), " ")
                  IN  Ok(pieces[Len(pieces)])
    ELSE Raise(ErrNoControl)

\* Variant: a missing debian/source/format read as a native package.
is_native_MissingIsNative(_is_native, debian) ==
    IF _is_native.some THEN Ok(_is_native.val)
    ELSE IF debian.some /\ debian.val.format.some
    THEN Ok(Strip(debian.val.format.val) # QuiltFormat)
    ELSE Ok(TRUE)

\* SlimPackage.is_native on a package whose cached answer is _is_native.
is_native(_is_native, debian) ==
    IF _is_native.some THEN Ok(_is_native.val)
    ELSE IF debian.some /\ debian.val.format.some
    THEN Ok(Strip(debian.val.format.val) # QuiltFormat)
    ELSE Raise(ErrNoSourceFormat)

\* SlimPackage.release
release(_release, tag, branch) ==
    IF ~Truthy(_release) /\ tag.some
    THEN Ok(Split(Replace(tag.val, DefaultTagPrefix, <<>>), "/")[1])
    ELSE IF ~Truthy(_release) /\ branch.some
    THEN Ok(Split(Replace(branch.val, DefaultBranchPrefix, <<>>), "/")[1])
    ELSE IF ~Truthy(_release) THEN Raise(ErrNoRelease)
    ELSE Ok(_release.val)

\* commit.hexsha in tags: the commit carries a tag whose name starts with
\* the prefix.
InTags(commit) ==
    commit.tag.some /\ StartsWith(commit.tag.val, DefaultTagPrefix)

\* The entry of the tags dictionary for a commit: the commit's tag name with
\* the prefix removed when the name starts with the prefix, else no entry.
TagEntry(commit) ==
    IF InTags(commit)
    THEN Some(Replace(commit.tag.val, DefaultTagPrefix, <<>>))
    ELSE None

\* changelog_entry(author=..., mail=..., date=..., contents=OrderedDict())
NewEntry(commit) ==
    [author |-> commit.author, mail |-> EmailOf(commit.author),
     date |-> FormatDate(commit), contents |-> <<>>]

\* Variant: the message appended to the author's list, not inserted first.
InsertMessage_Append(contents, author, message) ==
    IF \E i \in 1..Len(contents) : contents[i].author = author
    THEN [i \in 1..Len(contents) |->
            IF contents[i].author = author
            THEN [contents[i] EXCEPT !.messages = Append(@, message)]
            ELSE contents[i]]
    ELSE Append(contents, [author |-> author, messages |-> <<message>>])

\* contents.setdefault(author, []).insert(0, message) on an OrderedDict kept
\* as a sequence of [author, messages] in insertion order.
InsertMessage(contents, author, message) ==
    IF \E i \in 1..Len(contents) : contents[i].author = author
    THEN [i \in 1..Len(contents) |->
            IF contents[i].author = author
            THEN [contents[i] EXCEPT !.messages = <<message>> \o @]
            ELSE contents[i]]
    ELSE Append(contents, [author |-> author, messages |-> <<message>>])

\* The commit's first message line added to the entry under its author.
AddCommit(e, commit) ==
    [e EXCEPT !.contents =
        InsertMessage(@, commit.author, FirstLine(commit.message))]

\* The value formatted into DEBIAN_CHANGELOG_TEMPLATE: the stanza's fields,
\* the body as its author blocks, headers telling whether each block is
\* headed by "[ author ]".
Stanza(pkgName, version, rel, e) ==
    [name |-> pkgName, version |-> sanitize_tag_version(version),
     release |-> rel, blocks |-> e.contents,
     headers |-> Len(e.contents) > 1,
     author |-> e.author, mail |-> e.mail, date |-> e.date]

\* ---------------------------------------------------------- iter_changelog

\* Variant: only a commit without parents is a boundary.
IsBoundary_RootOnly(commit, commit_hash) == ~commit.parents

\* The test that opens a new version: a tagged commit other than the
\* starting one, or a commit without parents.
IsBoundary(commit, commit_hash) ==
    (InTags(commit) /\ commit.hexsha # commit_hash) \/ ~commit.parents

\* Variant: the first and the last piece taken, whatever lies between.
Unpack_FirstAndLast(pair) ==
    LET pieces == Split(pair, "/")
    IN  IF Len(pieces) >= 2 THEN Ok(<<pieces[1], pieces[Len(pieces)]>>)
        ELSE Raise(ErrUnpack)

\* release, version = nearest_version.split("/")
Unpack(pair) ==
    LET pieces == Split(pair, "/")
    IN  IF Len(pieces) = 2 THEN Ok(pieces) ELSE Raise(ErrUnpack)

\* Variant: the tracked pair never replaced.
TrackedAfter_Kept(tracked, commit) == tracked

\* "If we should change version, do that": the pair tracked after a boundary.
TrackedAfter(tracked, commit) ==
    IF commit.parents THEN TagEntry(commit).val ELSE tracked

\* The entry after the tail of the loop body: created if there is none, then
\* the commit added.
Accumulate(e, commit) ==
    Some(AddCommit(IF e.some THEN e.val ELSE NewEntry(commit), commit))

\* One iteration of the loop over iter_commits, from the generator's state
\* (tracked pair, entry in progress, cached package name): the state after
\* it, the stanza it yielded if any, and the exception that ended it if any.
LoopBody(commit, commit_hash, tracked, e, _name, debian) ==
    LET same == [err |-> "", tracked |-> tracked, entry |-> e,
                 _name |-> _name, yielded |-> <<>>]
    IN
    IF ~IsBoundary(commit, commit_hash)
    THEN [same EXCEPT !.entry = Accumulate(e, commit)]
    ELSE
      LET pair   == Unpack(tracked)
          closed == IF ~commit.parents THEN Accumulate(e, commit) ELSE e
          nm     == name(_name, debian)
      IN  IF ~pair.ok THEN [same EXCEPT !.err = pair.err]
          ELSE IF ~closed.some THEN [same EXCEPT !.err = ErrNoEntry]
          ELSE IF ~nm.ok THEN [same EXCEPT !.err = nm.err, !.entry = closed]
          ELSE [err |-> "",
                tracked |-> TrackedAfter(tracked, commit),
                entry |-> Accumulate(None, commit),
                _name |-> Some(nm.val),
                yielded |-> <<Stanza(nm.val, pair.val[2], pair.val[1],
                                     closed.val)>>]

\* ------------------------------------------------------------------ state

VARIABLES
    args,             \* the parsed command line: commit, tag, branch, comment
    env,              \* the repository and its working tree, as found
    pc,               \* where the main section is
    error,            \* the message of the exception that ended the run
    pkg,              \* the SlimPackage instance
    starting_version, \* the local of SlimPackage.version
    stdout,           \* the lines printed
    outOpened,        \* debian/changelog has been opened for writing
    written,          \* the stanzas written to debian/changelog since then
    visited,          \* the commits iter_commits has yielded, in walk order
    entry,            \* the local of iter_changelog: the entry in progress
    nearest_version   \* the local of iter_changelog: the tracked pair

vars == <<args, env, pc, error, pkg, starting_version, stdout, outOpened,
          written, visited, entry, nearest_version>>

\* ----------------------------------------------------------------- inputs

ArgCommits == {None, Some(Hexsha(1)), Some(<<"H", "E", "A", "D">>)}

ArgTags ==
    {None, Some(TagGood),
     Some(DefaultTagPrefix \o <<"t", "r", "i", "x", "i", "e", "/", "3", ".", "1", "_", "r", "c", "%", "1">>)}

ArgBranches == {None, Some(<<"f", "e", "a", "t", "u", "r", "e", "/", "t", "r", "i", "x", "i", "e", "/", "w", "i", "p">>)}

\* repository.active_branch.name; None when HEAD is detached.
ActiveBranches == {None, Some(<<"b", "o", "o", "k", "w", "o", "r", "m">>)}

ArgComments ==
    {DefaultComment, <<"f", "e", "a", "t", "u", "r", "e", "/", "M", "y", " ", "F", "i", "x">>, <<"c", "i", "_", "r", "u", "n", "%", "1">>}

\* The committed time of the starting commit (seconds since the epoch) and
\* the machine's offset from UTC.
Clocks ==
    {[ts |-> 951827696, utcOffset |-> 0],
     [ts |-> 1609459199, utcOffset |-> 3600]}

ControlFiles ==
    {None,
     Some(<<<<"P", "r", "i", "o", "r", "i", "t", "y", ":", " ", "o", "p", "t", "i", "o", "n", "a", "l", "\n">>>>),
     Some(<<<<"P", "r", "i", "o", "r", "i", "t", "y", ":", " ", "o", "p", "t", "i", "o", "n", "a", "l", "\n">>,
            <<"S", "o", "u", "r", "c", "e", ":", " ", "d", "r", "o", "i", "d", "-", "p", "k", "g", "\n">>>>)}

FormatFiles == {None, Some(<<"3", ".", "0", " ", "(", "n", "a", "t", "i", "v", "e", ")", "\n">>)}

ChangelogFiles ==
    {None,
     Some(<<"d", "r", "o", "i", "d", "-", "p", "k", "g", " ", "(", "2", ".", "0", "_", "1", ")", " ", "u", "n", "s", "t", "a", "b", "l", "e", ";", " ", "u", "r", "g", "e", "n", "c", "y", "=", "m", "e", "d", "i", "u", "m", "\n", "\n", " ", " ", "*", " ", "x", "\n">>),
     Some(<<"g", "a", "r", "b", "a", "g", "e", "\n">>)}

\* The debian directory of the working tree, which is also the current
\* directory (--git-repository defaults to it): absent, or its three files.
DebianDirs ==
    {None} \cup
    {Some(d) : d \in [control : ControlFiles, format : FormatFiles,
                      changelog : ChangelogFiles]}

ArgSpace ==
    [commit : ArgCommits, tag : ArgTags, branch : ArgBranches,
     comment : ArgComments]

EnvSpace ==
    [repoValid : BOOLEAN, activeBranch : ActiveBranches, clock : Clocks,
     debian : DebianDirs]

GoodDebian ==
    Some([control |-> Some(<<<<"P", "r", "i", "o", "r", "i", "t", "y", ":", " ", "o", "p", "t", "i", "o", "n", "a", "l", "\n">>,
                             <<"S", "o", "u", "r", "c", "e", ":", " ", "d", "r", "o", "i", "d", "-", "p", "k", "g", "\n">>>>),
          format |-> Some(<<"3", ".", "0", " ", "(", "n", "a", "t", "i", "v", "e", ")", "\n">>),
          changelog |-> None])

\* The command lines and working trees under which every history up to
\* MaxCommits commits is explored; under the others of ArgSpace and EnvSpace
\* the histories are those of one author, of up to BasicCommits commits,
\* tagged with TagGood or not at all.
FullHistoryRuns ==
    {<<[commit |-> None, tag |-> None,
        branch |-> Some(<<"f", "e", "a", "t", "u", "r", "e", "/", "t", "r", "i", "x", "i", "e", "/", "w", "i", "p">>),
        comment |-> DefaultComment],
       [repoValid |-> TRUE, activeBranch |-> Some(<<"b", "o", "o", "k", "w", "o", "r", "m">>),
        clock |-> [ts |-> 951827696, utcOffset |-> 0],
        debian |-> GoodDebian]>>,
     <<[commit |-> Some(<<"H", "E", "A", "D">>),
        tag |-> Some(DefaultTagPrefix \o <<"t", "r", "i", "x", "i", "e", "/", "3", ".", "1", "_", "r", "c", "%", "1">>),
        branch |-> None, comment |-> <<"c", "i", "_", "r", "u", "n", "%", "1">>],
       [repoValid |-> TRUE, activeBranch |-> None,
        clock |-> [ts |-> 1609459199, utcOffset |-> 3600],
        debian |-> GoodDebian]>>}

\* The longest walk explored in this run.
WalkBound ==
    IF <<args, env>> \in FullHistoryRuns THEN MaxCommits ELSE BasicCommits

\* What iter_commits may yield next; the last commit a walk of the longest
\* length yields has no parents, as the last commit of every walk.
NextCommits ==
    LET k == Len(visited) + 1
        parentChoices == IF k >= WalkBound THEN {FALSE} ELSE BOOLEAN
    IN  IF <<args, env>> \in FullHistoryRuns
        THEN {Commit(k, a, p, t) :
                a \in Authors, p \in parentChoices, t \in CommitTags}
        ELSE {Commit(k, "alice", p, t) :
                p \in parentChoices, t \in {None, Some(TagGood)}}

NoPackage ==
    [commit_hash |-> <<>>, tag |-> None, branch |-> None, comment |-> <<>>,
     _name |-> None, _is_native |-> None, _version |-> None,
     _release |-> None]

Init ==
    /\ args \in ArgSpace
    /\ env \in EnvSpace
    /\ pc = "start"
    /\ error = ""
    /\ pkg = NoPackage
    /\ starting_version = None
    /\ stdout = <<>>
    /\ outOpened = FALSE
    /\ written = <<>>
    /\ visited = <<>>
    /\ entry = None
    /\ nearest_version = <<>>

\* ---------------------------------------------------------------- actions

\* An unhandled exception: the interpreter exits with a non-zero code.
Abort(e) == pc' = "failed" /\ error' = e

\* git.Repo(...) and SlimPackage(...): the repository is loaded and the
\* package built from the command line.
LoadAndConstruct ==
    /\ pc = "start"
    /\ IF ~env.repoValid
       THEN Abort(ErrRepository) /\ pkg' = pkg
       ELSE IF ~Truthy(args.branch) /\ ~Truthy(args.tag)
                /\ ~env.activeBranch.some
       THEN Abort(ErrDetachedHead) /\ pkg' = pkg
       ELSE /\ pc' = "constructed"
            /\ error' = error
            /\ pkg' = [NoPackage EXCEPT
                 !.commit_hash =
                    IF Truthy(args.commit) THEN args.commit.val ELSE Hexsha(1),
                 !.tag = args.tag,
                 !.branch =
                    IF Truthy(args.branch) THEN args.branch
                    ELSE IF Truthy(args.tag) THEN None ELSE env.activeBranch,
                 !.comment =
                    slugify(Replace(args.comment, DefaultBranchPrefix, <<>>))]
    /\ UNCHANGED <<args, env, starting_version, stdout, outOpened, written,
                   visited, entry, nearest_version>>

PrintPrefix == <<"I", ":", " ", "R", "e", "s", "u", "l", "t", "i", "n", "g", " ", "v", "e", "r", "s", "i", "o", "n", " ", "i", "s", " ">>

\* version = pkg.version; print(...)
ResolveVersion ==
    /\ pc = "constructed"
    /\ LET start == FirstNotNone(StartingVersionStrategies(pkg.tag, env.debian))
           v == FormatVersion(start.val,
                              Strftime(env.clock.ts, env.clock.utcOffset),
                              pkg.commit_hash, pkg.comment)
       IN  /\ starting_version' = start
           /\ pkg' = [pkg EXCEPT !._version = Some(v)]
           /\ stdout' = Append(stdout, PrintPrefix \o v)
    /\ pc' = "versioned"
    /\ UNCHANGED <<args, env, error, outOpened, written, visited, entry,
                   nearest_version>>

\* with open("debian/changelog", "w") as f: the file is created or truncated.
OpenChangelog ==
    /\ pc = "versioned"
    /\ IF env.debian.some
       THEN pc' = "opened" /\ error' = error /\ outOpened' = TRUE
       ELSE Abort(ErrOpen) /\ outOpened' = outOpened
    /\ UNCHANGED <<args, env, pkg, starting_version, stdout, written, visited,
                   entry, nearest_version>>

\* The generator up to its loop: the tags dictionary (kept as TagEntry) and
\* the top release/version pair.
IterStart ==
    /\ pc = "opened"
    /\ LET rel == release(pkg._release, pkg.tag, pkg.branch)
       IN  IF rel.ok
           THEN /\ pc' = "walking"
                /\ error' = error
                /\ pkg' = [pkg EXCEPT !._release = Some(rel.val)]
                /\ nearest_version' = rel.val \o <<"/">> \o pkg._version.val
           ELSE /\ Abort(rel.err)
                /\ UNCHANGED <<pkg, nearest_version>>
    /\ entry' = None
    /\ UNCHANGED <<args, env, starting_version, stdout, outOpened, written,
                   visited>>

\* One commit from iter_commits through the loop body, and f.write of the
\* stanza it yields.  A starting commit without parents is the whole walk.
\* The loop body is evaluated once per commit (r ranges over one value).
WalkCommit ==
    /\ pc = "walking"
    /\ Len(visited) < WalkBound
    /\ IF visited = <<>> THEN TRUE ELSE visited[1].parents
    /\ \E commit \in NextCommits :
         \E r \in {LoopBody(commit, pkg.commit_hash, nearest_version, entry,
                           pkg._name, env.debian)} :
             /\ visited' = Append(visited, commit)
             /\ entry' = r.entry
             /\ nearest_version' = r.tracked
             /\ pkg' = [pkg EXCEPT !._name = r._name]
             /\ written' = written \o r.yielded
             /\ IF r.err = "" THEN UNCHANGED <<pc, error>> ELSE Abort(r.err)
    /\ UNCHANGED <<args, env, starting_version, stdout, outOpened>>

\* iter_commits is exhausted (its last commit has no parents): the file is
\* closed and the program exits with code 0.
WalkEnd ==
    /\ pc = "walking"
    /\ visited # <<>>
    /\ ~visited[Len(visited)].parents
    /\ pc' = "done"
    /\ UNCHANGED <<args, env, error, pkg, starting_version, stdout, outOpened,
                   written, visited, entry, nearest_version>>

Next ==
    \/ LoadAndConstruct
    \/ ResolveVersion
    \/ OpenChangelog
    \/ IterStart
    \/ WalkCommit
    \/ WalkEnd

Spec == Init /\ [][Next]_vars

\* ------------------------------------------------- history, for properties

\* The first message lines a stanza lists, block after block.
RECURSIVE Lines(_)
Lines(blocks) ==
    IF blocks = <<>> THEN <<>> ELSE Head(blocks).messages \o Lines(Tail(blocks))

\* The visited commit whose first message line is `line`.
CommitOfLine(line) ==
    CHOOSE k \in 1..Len(visited) : FirstLine(visited[k].message) = line

\* The ids of the commits a stanza lists.
Listed(stanza) ==
    {CommitOfLine(Lines(stanza.blocks)[i]) : i \in 1..Len(Lines(stanza.blocks))}

\* How many times all the stanzas written list the line of commit k.
RECURSIVE Occurrences(_, _)
Occurrences(stanzas, line) ==
    IF stanzas = <<>> THEN 0
    ELSE Cardinality({i \in 1..Len(Lines(Head(stanzas).blocks)) :
                        Lines(Head(stanzas).blocks)[i] = line})
         + Occurrences(Tail(stanzas), line)

\* The positions in the walk of the commits that are boundaries.
Boundaries ==
    {k \in 1..Len(visited) : IsBoundary(visited[k], pkg.commit_hash)}

\* The same positions in walk order.
BoundarySeq ==
    SelectSeq([k \in 1..Len(visited) |-> k],
              LAMBDA k : IsBoundary(visited[k], pkg.commit_hash))

\* The position of the j-th boundary of the walk.
BoundaryAt(j) == BoundarySeq[j]

\* The printed version: the line without its fixed beginning.
PrintedVersion(line) == DropFirst(line, Len(PrintPrefix))

ControlMissing == ~(env.debian.some /\ env.debian.val.control.some)

FormatMissing == ~(env.debian.some /\ env.debian.val.format.some)

\* ------------------------------------------------------------- properties

\* C1: when debian/control does not exist, the run fails with "Unable to
\* find debian/control" before debian/changelog has been opened, truncated
\* or written: the output file is untouched when the failure is raised.
C1_ControlFailureBeforeOutput ==
    (ControlMissing /\ pc = "failed" /\ error = ErrNoControl) => ~outOpened

\* The nearest prefix-matching tag reachable from the starting commit, as
\* the describe lookup reports it: the tag of the first tagged commit of the
\* walk, the starting commit included.
NearestTag ==
    LET tagged == {k \in 1..Len(visited) : InTags(visited[k])}
    IN  IF tagged = {} THEN None
        ELSE Some(visited[CHOOSE k \in tagged : \A m \in tagged : k <= m].tag.val)

\* What the second strategy is documented to give: the version of the
\* nearest tag, nothing when there is no such tag or the lookup fails.
DescribedVersion ==
    IF NearestTag.some /\ DescribeVersion(NearestTag.val, DefaultTagPrefix).ok
    THEN Some(DescribeVersion(NearestTag.val, DefaultTagPrefix).val)
    ELSE None

\* C3: the base version is the result of the first strategy that produces
\* one, in the order: supplied tag, nearest prefix-matching tag, old
\* debian/changelog, "0.0.0"; with no tag supplied and a prefix-matching tag
\* reachable from the commit, it is taken from that nearest tag.  Stated of
\* completed runs that walk from HEAD, where the whole history is known.
C3_FirstStrategyWins ==
    (pc = "done" /\ ~args.commit.some) =>
        starting_version =
            FirstNotNone(<< TagVersion(args.tag, DefaultTagPrefix),
                            DescribedVersion,
                            get_version_from_changelog(env.debian),
                            Some(DefaultVersion) >>)

\* C5: no version the program outputs, printed to standard output or written
\* as the version of a stanza, contains "_" or "%".
C5_NoRawCharsInAnyOutput ==
    /\ \A i \in 1..Len(stdout) :
          /\ Count(PrintedVersion(stdout[i]), "_") = 0
          /\ Count(PrintedVersion(stdout[i]), "%") = 0
    /\ \A j \in 1..Len(written) :
          /\ Count(written[j].version, "_") = 0
          /\ Count(written[j].version, "%") = 0

\* C9: when the commits of a walk that ends at a parentless commit are
\* exhausted, the first message line of each visited commit has been emitted
\* in exactly one stanza.
C9_EachMessageInExactlyOneStanza ==
    pc = "done" =>
        \A k \in 1..Len(visited) :
            Occurrences(written, FirstLine(visited[k].message)) = 1

\* A linear history with one prefix-matching tag: M commits, then the tagged
\* commit, then N commits of which the last, and only the last, has no
\* parents.
OneTagLinear(N, M) ==
    /\ Len(visited) = N + 1 + M
    /\ \A k \in 1..Len(visited) :
          /\ visited[k].parents <=> k < Len(visited)
          /\ InTags(visited[k]) <=> k = M + 1

\* The stanza lists exactly the commits `ids`, each once.
ListsExactly(stanza, ids) ==
    /\ Len(Lines(stanza.blocks)) = Cardinality(ids)
    /\ Listed(stanza) = ids

\* C2 as stated: for a linear history with one prefix-matching tag T, N >= 1
\* commits before T's commit and M >= 1 after it, exactly 2 stanzas are
\* emitted, the first listing the M commits since T, the second the N commits
\* up to and including the root.
C2_TwoStanzasMAndN ==
    pc = "done" =>
        \A N \in 1..MaxCommits, M \in 1..MaxCommits :
            OneTagLinear(N, M) =>
                /\ Len(written) = 2
                /\ ListsExactly(written[1], 1..M)
                /\ ListsExactly(written[2], (M + 2)..(M + 1 + N))

\* C2 amended: in a run that completes on such a history, exactly 2 stanzas
\* have been emitted, newest first: the first lists exactly the M commits
\* since T, the second lists N + 1 commits, T's commit and the N commits
\* before it down to and including the root.
C2_TwoStanzasMAndTaggedPlusN ==
    pc = "done" =>
        \A N \in 1..MaxCommits, M \in 1..MaxCommits :
            OneTagLinear(N, M) =>
                /\ Len(written) = 2
                /\ ListsExactly(written[1], 1..M)
                /\ ListsExactly(written[2], (M + 1)..(M + 1 + N))

C2_Witness ==
    /\ pc = "done"
    /\ \E N \in 1..MaxCommits, M \in 1..MaxCommits : OneTagLinear(N, M)
    /\ Len(written) = 2

\* C4 as stated: the version is the base version, "+git", the committed time
\* as YYYYMMDDHHMMSS immediately followed by the first 7 characters of the
\* commit hash, ".", and the slug of the comment.
C4_VersionWithoutDotBeforeHash ==
    pkg._version.some =>
        pkg._version.val =
            starting_version.val \o <<"+", "g", "i", "t">>
                \o Strftime(env.clock.ts, env.clock.utcOffset)
                \o TakeFirst(pkg.commit_hash, 7)
                \o <<".">> \o slugify(args.comment)

\* C4 amended: the version is the base version, "+git", the committed time
\* as YYYYMMDDHHMMSS, ".", the first 7 characters of the commit hash as
\* given to the package, ".", and the slug of the comment with the branch
\* prefix removed from it.
C4_VersionLayout ==
    pkg._version.some =>
        pkg._version.val =
            starting_version.val \o <<"+", "g", "i", "t">>
                \o Strftime(env.clock.ts, env.clock.utcOffset)
                \o <<".">> \o TakeFirst(pkg.commit_hash, 7)
                \o <<".">>
                \o slugify(Replace(args.comment, DefaultBranchPrefix, <<>>))

\* A parentless starting commit, no tag, no old changelog: version
\* 0.0.0+git<ts>.<hash>.release and one stanza with that commit's message.
C4_Witness ==
    /\ pc = "done"
    /\ Len(visited) = 1
    /\ ~visited[1].tag.some
    /\ ~args.tag.some
    /\ pkg._version.val = <<"0", ".", "0", ".", "0", "+", "g", "i", "t", "2", "0", "0", "0", "0", "2", "2", "9", "1", "2", "3", "4", "5", "6", ".", "7", "e", "5", "c", "3", "a", "1", ".", "r", "e", "l", "e", "a", "s", "e">>
    /\ Len(written) = 1
    /\ Lines(written[1].blocks) = <<<<"f", "i", "x", " ", "1">>>>

\* C6 as stated: in every run where debian/source/format does not exist, the
\* run does not complete with exit code 0.
C6_MissingFormatNeverCompletes == FormatMissing => pc # "done"

\* C6 amended: a missing debian/source/format makes SlimPackage.is_native
\* raise "Unable to find debian/source/format", but no run of the program
\* queries is_native: no run ends with that error.
C6_FormatOnlyFatalWhenQueried ==
    /\ error # ErrNoSourceFormat
    /\ pkg._is_native = None
    /\ FormatMissing =>
          /\ ~is_native(pkg._is_native, env.debian).ok
          /\ is_native(pkg._is_native, env.debian).err = ErrNoSourceFormat

C6_Witness == pc = "done" /\ FormatMissing /\ env.debian.some

\* C7: in every emitted stanza each author's messages are those of that
\* author's commits, oldest first: in the reverse of the order in which the
\* walk visited them.
C7_OldestFirstPerAuthor ==
    \A j \in 1..Len(written) :
        \A b \in 1..Len(written[j].blocks) :
            LET block == written[j].blocks[b]
            IN  /\ \A i \in 1..Len(block.messages) :
                      visited[CommitOfLine(block.messages[i])].author
                          = block.author
                /\ \A i \in 1..(Len(block.messages) - 1) :
                      CommitOfLine(block.messages[i])
                          > CommitOfLine(block.messages[i + 1])

\* A stanza closed by a parentless commit whose message heads a list of
\* several messages of its author.
C7_Witness ==
    \E j \in 1..Len(written) :
        \E b \in 1..Len(written[j].blocks) :
            /\ Len(written[j].blocks[b].messages) >= 2
            /\ ~visited[CommitOfLine(written[j].blocks[b].messages[1])].parents

\* The pair tracked when the j-th boundary commit of the walk was read: the
\* top release/version pair, replaced at each earlier boundary commit that
\* has parents by the pair its tag names.
RECURSIVE TrackedBefore(_)
TrackedBefore(j) ==
    IF j = 1 THEN pkg._release.val \o <<"/">> \o pkg._version.val
    ELSE IF visited[BoundaryAt(j - 1)].parents
         THEN TagEntry(visited[BoundaryAt(j - 1)]).val
         ELSE TrackedBefore(j - 1)

\* The commits between the boundary before the j-th and the j-th: from the
\* starting commit or the previous boundary commit itself, to the j-th
\* boundary commit, which is included only if it has no parents.
SegmentOf(j) ==
    (IF j = 1 THEN 1 ELSE BoundaryAt(j - 1))
        .. (IF visited[BoundaryAt(j)].parents
            THEN BoundaryAt(j) - 1 ELSE BoundaryAt(j))

\* C8: the stanza emitted at a boundary carries the release and the
\* (sanitized) version of the pair tracked before the boundary commit was
\* read; the pair is replaced only afterwards, by the pair of the tag just
\* reached, and not at a parentless commit.  So the first stanza carries the
\* top pair, and a tag's pair labels the stanza that begins with the tagged
\* commit and runs to the next older boundary.
C8_StanzaLabelledWithPairTrackedBefore ==
    \A j \in 1..Len(written) :
        \A pair \in {Split(TrackedBefore(j), "/")} :
            /\ written[j].release = pair[1]
            /\ written[j].version = sanitize_tag_version(pair[2])
            /\ Listed(written[j]) = SegmentOf(j)

\* The starting commit is tagged, and a second stanza is labelled by the tag
\* of the commit it begins with.
C8_Witness ==
    /\ Len(written) >= 2
    /\ InTags(visited[1])
    /\ visited[BoundaryAt(1)].parents
    /\ written[1].release = pkg._release.val
    /\ written[2].release = <<"b", "u", "l", "l", "s", "e", "y", "e">>
    /\ written[2].version = <<"1", ".", "0", "~", "2">>

\* The earlier boundary commits of the walk that replaced the tracked pair.
Replacers ==
    {k \in Boundaries : k < Len(visited) /\ visited[k].parents}

\* C10: once the walk has reached a prefix-matching tag on a non-starting
\* commit with parents, the emission at the next boundary fails in the split
\* of the pair, after the stanzas of all earlier boundaries were produced,
\* when the tag's name without the prefix has no "/" or more than one; it
\* does not fail in the split when that name has exactly one "/".
C10_SplitFailsIffNotOneSlash ==
    (Len(visited) \in Boundaries /\ Replacers # {}) =>
        LET last == CHOOSE k \in Replacers : \A m \in Replacers : m <= k
            pair == TagEntry(visited[last]).val
        IN  IF Count(pair, "/") = 1
            THEN error # ErrUnpack
            ELSE /\ pc = "failed"
                 /\ error = ErrUnpack
                 /\ Len(written) = Cardinality(Boundaries) - 1

C10_Witness ==
    /\ pc = "failed"
    /\ error = ErrUnpack
    /\ Len(written) >= 1
    /\ Replacers # {}

=============================================================================
